---- MODULE Spec2Model ----
(***************************************************************************)
(* The flashcard workflow of src/App.js: RootApp's screen state machine,   *)
(* the SelectionScreen editor, the model-service and deck-service calls     *)
(* and the parsing of the model's answer into card entries.                *)
(*                                                                         *)
(* Text is a sequence of one-character strings, so that split, trim and    *)
(* the regular expression of the vocabulary parser are computed and not    *)
(* assumed.  Messages shown to the user are plain strings.                 *)
(***************************************************************************)
EXTENDS Integers, Sequences, FiniteSets, TLC

(* ------------------------------ bounds --------------------------------- *)
\* Longest model output enumerated for the parsers.
MaxLen == 4
\* Most camera/gallery pickers pending at once.
MaxPickers == 2
\* Most entries in a vocabulary handed to the deck client.
MaxEntries == 2

(* ------------------------------- text ---------------------------------- *)
NL == "\n"
SP == " "
Alphabet == {"a", ";", NL, SP, "(", ")"}
\* JavaScript's null, for selectedLanguage.
Null == "null"

\* JavaScript's undefined, where a text is expected.
Undefined == <<"undefined">>

RECURSIVE StringsOfLen(_)
StringsOfLen(n) ==
  IF n = 0 THEN {<<>>}
  ELSE {Append(s, c) : s \in StringsOfLen(n - 1), c \in Alphabet}

StringsUpTo(n) == UNION {StringsOfLen(k) : k \in 0..n}

IsSpace(c) == c \in {SP, NL}

RECURSIVE TrimStart(_)
TrimStart(s) ==
  IF s # <<>> /\ IsSpace(Head(s)) THEN TrimStart(Tail(s)) ELSE s

RECURSIVE TrimEnd(_)
TrimEnd(s) ==
  IF s # <<>> /\ IsSpace(s[Len(s)]) THEN TrimEnd(SubSeq(s, 1, Len(s) - 1)) ELSE s

\* String.prototype.trim
Trim(s) == TrimEnd(TrimStart(s))

\* String.prototype.indexOf for one character, 1-based; 0 when absent.
IndexOf(s, c) ==
  IF \E i \in 1..Len(s) : s[i] = c
  THEN CHOOSE i \in 1..Len(s) : s[i] = c /\ \A j \in 1..(i - 1) : s[j] # c
  ELSE 0

\* String.prototype.split with a one-character separator: every piece, in
\* order; a text without the separator is its own single piece.
RECURSIVE Split(_, _)
Split(s, c) ==
  LET i == IndexOf(s, c) IN
  IF i = 0 THEN <<s>>
  ELSE <<SubSeq(s, 1, i - 1)>> \o Split(SubSeq(s, i + 1, Len(s)), c)

\* Array.prototype.map and filter over sequences.
RECURSIVE MapTrim(_)
MapTrim(xs) ==
  IF xs = <<>> THEN <<>> ELSE <<Trim(Head(xs))>> \o MapTrim(Tail(xs))

\* .filter(Boolean): the empty string is the only falsy text.
RECURSIVE FilterNonEmpty(_)
FilterNonEmpty(xs) ==
  IF xs = <<>> THEN <<>>
  ELSE (IF Head(xs) = <<>> THEN <<>> ELSE <<Head(xs)>>) \o FilterNonEmpty(Tail(xs))

(* ------------------------ vocabulary parsing --------------------------- *)
\* The part of the text from position i+1 on matches (?:\s*\((.*?)\))?$ :
\* it is empty, or it is white space, an opening parenthesis, any text
\* without a line break, and a closing parenthesis that ends the text.
LeadingSpaces(r) ==
  IF \E k \in 1..Len(r) : ~IsSpace(r[k])
  THEN (CHOOSE k \in 1..Len(r) : ~IsSpace(r[k]) /\ \A j \in 1..(k - 1) : IsSpace(r[j])) - 1
  ELSE Len(r)

NoLineBreak(s) == \A k \in 1..Len(s) : s[k] # NL

ParenTail(r) ==
  LET j == LeadingSpaces(r) IN
    /\ Len(r) >= j + 2
    /\ r[j + 1] = "("
    /\ r[Len(r)] = ")"
    /\ NoLineBreak(SubSeq(r, j + 2, Len(r) - 1))

TailMatches(r) == r = <<>> \/ ParenTail(r)

\* original.match(/^(.*?)(?:\s*\((.*?)\))?$/): the lazy first group takes the
\* shortest prefix after which the rest matches.  The result is
\* <<matched, group 1, group 2>>, group 2 Undefined when the optional part
\* matched nothing.
RegexMatch(s) ==
  LET ok(i) == NoLineBreak(SubSeq(s, 1, i)) /\ TailMatches(SubSeq(s, i + 1, Len(s)))
  IN IF \E i \in 0..Len(s) : ok(i)
     THEN LET i == CHOOSE i \in 0..Len(s) : ok(i) /\ \A k \in 0..(i - 1) : ~ok(k)
              r == SubSeq(s, i + 1, Len(s))
          IN <<TRUE, SubSeq(s, 1, i),
               IF r = <<>> THEN Undefined
               ELSE SubSeq(r, LeadingSpaces(r) + 2, Len(r) - 1)>>
     ELSE <<FALSE, Undefined, Undefined>>

\* a || b on texts: the empty text and undefined are falsy.
OrElse(a, b) == IF a = <<>> \/ a = Undefined THEN b ELSE a

\* The callback keeping baseForm only for a line with a parenthesized form.
ParseLine_BaseOnlyWithForm(line) ==
  LET parts      == MapTrim(Split(line, ";"))
      original   == parts[1]
      translated == IF Len(parts) >= 2 THEN parts[2] ELSE Undefined
      m          == RegexMatch(original)
  IN IF m[1]
     THEN [original |-> OrElse(m[3], m[2]), translated |-> translated,
           baseForm |-> IF m[3] = Undefined THEN Undefined ELSE m[2]]
     ELSE [original |-> original, translated |-> translated, baseForm |-> Undefined]

\* The callback preferring the base form: baseForm || originalForm.
ParseLine_BaseFirst(line) ==
  LET parts      == MapTrim(Split(line, ";"))
      original   == parts[1]
      translated == IF Len(parts) >= 2 THEN parts[2] ELSE Undefined
      m          == RegexMatch(original)
  IN IF m[1]
     THEN [original |-> OrElse(m[2], m[3]), translated |-> translated, baseForm |-> m[2]]
     ELSE [original |-> original, translated |-> translated, baseForm |-> Undefined]

\* The .map callback of the vocabulary branch: one entry from one line.
\* const [original, translated] = line.split(';').map(w => w.trim())
ParseLine(line) ==
  LET parts      == MapTrim(Split(line, ";"))
      original   == parts[1]
      translated == IF Len(parts) >= 2 THEN parts[2] ELSE Undefined
      m          == RegexMatch(original)
  IN IF m[1]
     THEN [original |-> OrElse(m[3], m[2]), translated |-> translated, baseForm |-> m[2]]
     ELSE [original |-> original, translated |-> translated, baseForm |-> Undefined]

RECURSIVE MapParseLine(_)
MapParseLine(ls) ==
  IF ls = <<>> THEN <<>> ELSE <<ParseLine(Head(ls))>> \o MapParseLine(Tail(ls))

\* wordList.split('\n').map(trim).filter(Boolean).map(line => ...)
parseVocabulary(wordList) ==
  MapParseLine(FilterNonEmpty(MapTrim(Split(wordList, NL))))

(* --------------------------- Q&A parsing -------------------------------- *)
\* indexOf for a text pattern, 1-based; 0 when absent.
IndexOfStr(s, p) ==
  LET at(i) == SubSeq(s, i, i + Len(p) - 1) = p
      cand  == {i \in 1..(Len(s) - Len(p) + 1) : at(i)}
  IN IF cand = {} THEN 0 ELSE CHOOSE i \in cand : \A k \in cand : i <= k

\* split with a separator of several characters: leftmost, non-overlapping.
RECURSIVE SplitStr(_, _)
SplitStr(s, p) ==
  LET i == IndexOfStr(s, p) IN
  IF i = 0 THEN <<s>>
  ELSE <<SubSeq(s, 1, i - 1)>> \o SplitStr(SubSeq(s, i + Len(p), Len(s)), p)

\* s.replace(p, ''): the first occurrence only.
RemoveFirst(s, p) ==
  LET i == IndexOfStr(s, p) IN
  IF i = 0 THEN s ELSE SubSeq(s, 1, i - 1) \o SubSeq(s, i + Len(p), Len(s))

MarkF == <<"F", ":", SP>>
MarkA == <<"A", ":", SP>>

\* const [question, answer] = pair.split('\n'): answer is undefined for a
\* block of one line, and answer.replace then throws a TypeError.
PairThrows(pair) == Len(Split(pair, NL)) < 2

ParsePair(pair) ==
  LET ls == Split(pair, NL) IN
  [original   |-> Trim(RemoveFirst(ls[2], MarkA)),
   translated |-> Trim(RemoveFirst(ls[1], MarkF)),
   baseForm   |-> Undefined]

RECURSIVE MapParsePair(_)
MapParsePair(ps) ==
  IF ps = <<>> THEN <<>> ELSE <<ParsePair(Head(ps))>> \o MapParsePair(Tail(ps))

QABlocks(response) == FilterNonEmpty(SplitStr(response, <<NL, NL>>))

\* The qa branch's parsing throws when some block has a single line.
parseQAThrows(response) ==
  \E k \in 1..Len(QABlocks(response)) : PairThrows(QABlocks(response)[k])

\* response.split('\n\n').filter(Boolean).map(pair => ...), when it does not throw.
parseQA(response) == MapParsePair(QABlocks(response))

(* ------------------------------ the `t` lookups ------------------------ *)
ReferenceError == "ReferenceError: t is not defined"

\* A `t` declared at module scope, as the screens declare theirs.
Declared_t(key) == key

\* `t` as RootApp's handlers and sendRequestToApi see it: no enclosing scope
\* declares it (only the screen components declare their own), so evaluating
\* t(...) throws.
ModuleScope_t(key) == ReferenceError

\* `t` inside a screen component: getTranslation(selectedLanguage, key); the
\* message is identified by its key.
Screen_t(key) == key

Alert(title, message) == [title |-> title, message |-> message]

(* ------------------------- deck service client -------------------------- *)
\* vocabObject[entry.translated.trim()] = entry.original.trim(), entry by entry.
Put(f, k, v) == [x \in (DOMAIN f) \cup {k} |-> IF x = k THEN v ELSE f[x]]

\* The loop keeping the first value written under a key.
RECURSIVE BuildVocab_FirstWins(_, _)
BuildVocab_FirstWins(es, acc) ==
  IF es = <<>> THEN acc
  ELSE BuildVocab_FirstWins(Tail(es),
         IF Trim(Head(es).translated) \in DOMAIN acc THEN acc
         ELSE Put(acc, Trim(Head(es).translated), Trim(Head(es).original)))

RECURSIVE BuildVocab(_, _)
BuildVocab(es, acc) ==
  IF es = <<>> THEN acc
  ELSE BuildVocab(Tail(es), Put(acc, Trim(Head(es).translated), Trim(Head(es).original)))

\* undefined.trim() is a TypeError.
PayloadThrows(es) ==
  \E k \in 1..Len(es) : es[k].translated = Undefined \/ es[k].original = Undefined

buildPayload(es, name) ==
  [deck_name  |-> IF name = <<>> THEN <<"Default Deck">> ELSE name,
   vocabulary |-> BuildVocab(es, <<>>)]

\* What the relay can answer.  kind: "ok" a 2xx response, "http" an error
\* response, "none" no response; body: what the response data decodes to
\* ("noBuffer": the data is not an ArrayBuffer); code: the transport's error
\* code; msg: the text of the body's `error` or `message` field for
\* "jsonError" and "jsonMessage", the decoded text of the whole body otherwise.
DeckOutcomes ==
  { [kind |-> "ok",   status |-> 200, body |-> "binary",    code |-> "",            msg |-> ""],
    [kind |-> "ok",   status |-> 200, body |-> "jsonError", code |-> "",            msg |-> "too big"],
    [kind |-> "ok",   status |-> 200, body |-> "nodata",    code |-> "",            msg |-> ""],
    [kind |-> "http", status |-> 413, body |-> "jsonError", code |-> "ERR_BAD_REQUEST", msg |-> "too big"],
    [kind |-> "http", status |-> 413, body |-> "empty",     code |-> "ERR_BAD_REQUEST", msg |-> ""],
    [kind |-> "http", status |-> 500, body |-> "jsonOther", code |-> "ERR_BAD_RESPONSE", msg |-> "{}"],
    [kind |-> "none", status |-> 0,   body |-> "",          code |-> "ECONNABORTED", msg |-> ""],
    [kind |-> "none", status |-> 0,   body |-> "",          code |-> "ERR_NETWORK",  msg |-> ""] }

\* `${t('Server error')} (${error.response.status})`
WithStatus(message, status) ==
  IF message = ReferenceError THEN ReferenceError
  ELSE message \o " (" \o ToString(status) \o ")"

\* The switch on error.response.status: every arm evaluates t(...).
StatusTable(status) ==
  CASE status = 400 -> ModuleScope_t("Bad Request")
    [] status = 413 -> ModuleScope_t("List too large")
    [] status = 415 -> ModuleScope_t("Invalid content type")
    [] status = 429 -> ModuleScope_t("Too many requests")
    [] status = 500 -> ModuleScope_t("Server error")
    [] OTHER        -> WithStatus(ModuleScope_t("Server error"), status)

\* The status table before the body: the switch decides whenever the status
\* is one it lists.
ClassifyResponse_StatusFirst(o) ==
  IF o.status \in {400, 413, 415, 429, 500} THEN StatusTable(o.status) ELSE o.msg

\* if (error.response) { ... }: the message for an error response.  For an
\* ArrayBuffer the inner try parses the decoded text and its catch takes
\* whatever throws there, the ReferenceError of t('Server error') included,
\* and leaves the decoded text as the message.  For other data the throw of
\* t('Server error') reaches the outer catch and its switch on the status.
ClassifyResponse(o) ==
  IF o.body = "noBuffer"
  THEN IF ModuleScope_t("Server error") = ReferenceError
       THEN StatusTable(o.status)
       ELSE ModuleScope_t("Server error")
  ELSE CASE o.body \in {"jsonError", "jsonMessage"} -> o.msg
         [] o.body \in {"text", "empty"}            -> o.msg
         [] OTHER -> \* errorData.error || errorData.message || t('Server error')
              IF ModuleScope_t("Server error") = ReferenceError
              THEN o.msg
              ELSE ModuleScope_t("Server error")

\* The catch block of sendRequestToApi: the message of the Error it throws,
\* or ReferenceError when evaluating t(...) throws out of the block.
ClassifyError(o, thrownMessage) ==
  IF o.kind = "http" THEN ClassifyResponse(o)
  ELSE IF o.code = "ECONNABORTED" THEN ModuleScope_t("Request timeout")
  ELSE IF o.code = "ERR_NETWORK" THEN ModuleScope_t("Network error")
  ELSE IF o.kind = "none" THEN ModuleScope_t("No server response")
  ELSE thrownMessage

\* sendRequestToApi(vocabulary, deckName) when the relay answers o:
\* success (after the download was triggered) or the message of the error
\* it rejects with.
sendRequestToApi(es, name, o) ==
  IF PayloadThrows(es)
  THEN [success |-> FALSE, requested |-> FALSE,
        message |-> "TypeError: Cannot read properties of undefined (reading 'trim')"]
  ELSE IF o.kind = "ok"
  THEN IF o.body = "nodata"
       THEN [success |-> FALSE, requested |-> TRUE, message |-> "Failed to generate Anki deck"]
       ELSE [success |-> TRUE, requested |-> TRUE, message |-> ""]
  ELSE [success |-> FALSE, requested |-> TRUE, message |-> ClassifyError(o, "")]

\* link.setAttribute('download', `${deckName || 'Anki-Cards'}.apkg`)
FileName(name) == (IF name = <<>> THEN <<"Anki-Cards">> ELSE name) \o <<".apkg">>

(* --------------------------- model client ------------------------------ *)
\* `...generateContent?key=${GEMINI_API_KEY}`: the template literal writes an
\* undefined key as the text "undefined".
GeminiUrl(key) == <<"generateContent?key=">> \o key

\* What fetch and the service can answer.  kind: "rejects" fetch rejects,
\* "notOk" a response with !response.ok, "ok" a 2xx response; text: the text
\* of the first candidate's first part, empty when there is none.
FetchOutcomes ==
  { [kind |-> "rejects", text |-> <<>>],
    [kind |-> "notOk",   text |-> <<>>],
    [kind |-> "ok",      text |-> <<>>],
    [kind |-> "ok",      text |-> <<"a">>],
    [kind |-> "ok",      text |-> <<"a", ";", "a">>] }

\* askLLM({prompt, base64Image}) with GEMINI_API_KEY = key when fetch is
\* answered by reply: the requests it issues and what it resolves or rejects
\* with.  Nothing between reading the key and the fetch returns or throws.
askLLM(prompt, base64Image, key, reply) ==
  [requests |-> << [url   |-> GeminiUrl(key),
                    parts |-> IF base64Image = Undefined THEN <<prompt>>
                              ELSE <<prompt, base64Image>>] >>,
   result   |-> IF reply.kind = "ok" /\ reply.text # <<>>
                THEN [ok |-> TRUE, text |-> reply.text, message |-> ""]
                ELSE [ok |-> FALSE, text |-> <<>>,
                      message |-> "Failed to get a response from Gemini."]]

(* ------------------------------- state ---------------------------------- *)
VARIABLES
  step,              \* RootApp: the screen of the workflow
  selectedLanguage,  \* RootApp: the chosen language, or Null
  processing,        \* RootApp: the progress message, "" when idle
  downloadUrl,       \* RootApp
  extractedWords,    \* RootApp: the entries parsed from the model's answer
  deckName,          \* RootApp
  inputText,         \* RootApp: the raw content
  selectedWords,     \* SelectionScreen: the working copy (<<>> while unmounted)
  isLoading,         \* SelectionScreen
  tasks,             \* the suspended async handlers, each at its await
  alerts,            \* Alert.alert calls of the last handler run
  logged,            \* console.error calls of the last handler run
  download,          \* file downloads triggered by the last handler run
  unhandled,         \* the rejection the last handler run ended with, or "none"
  stepBefore,        \* history: step when the progress message was last set
  pin, pout, pfn     \* a parser's input, its output and which parser ran

appVars  == <<step, selectedLanguage, processing, downloadUrl, extractedWords,
              deckName, inputText>>
viewVars == <<selectedWords, isLoading>>
outVars  == <<alerts, logged, download, unhandled>>
parseVars == <<pin, pout, pfn>>
vars == <<step, selectedLanguage, processing, downloadUrl, extractedWords,
          deckName, inputText, selectedWords, isLoading, tasks, alerts, logged,
          download, unhandled, stepBefore, pin, pout, pfn>>

(* ------------------------------ inputs ---------------------------------- *)
Languages == {"de", "en"}
\* What the user can type on the text screen (never empty: the button is
\* guarded by `text && onSubmit(text)`).
Texts == {<<"a">>}
\* What the model can answer to the deck-name prompt.
NameResponses == {<<SP, "a">>}
\* What the model can answer to the vocabulary prompt: a line with its `;`
\* and one without; a parenthesized form; white space only.
VocabResponses ==
  { <<"a", ";", "a", NL, "a">>,
    <<"a", SP, "(", "a", ")", ";", "a">>,
    <<SP>> }
\* What the model can answer to the Q&A prompt: a well-formed block, and a
\* block of one line.
QAResponses ==
  { <<"F", ":", SP, "a", NL, "A", ":", SP, "a">>,
    <<"F", ":", SP, "a">> }
\* What the model can answer about an image.
ImageResponses == {<<"a">>}
\* What the user can type into a field of the selection screen.
EditValues == {<<"a", "a">>}

Failed == [ok |-> FALSE, text |-> <<>>]
Answered(text) == [ok |-> TRUE, text |-> text]

(* ------------------------------ helpers --------------------------------- *)
\* RootApp rendering the step's screen whatever the progress message is.
Rendered_WithoutOverlay(s) == step = s

\* What RootApp renders: the processing screen hides the step's screen.
Rendered(s) == processing = "" /\ step = s

\* A suspended handler: where it waits and what its closure holds (the
\* arguments it was called with and the state of the render it came from).
Task(h, at, type, content, words, name) ==
  [h |-> h, at |-> at, type |-> type, content |-> content, words |-> words, name |-> name]

RemoveAt(seq, i) == SubSeq(seq, 1, i - 1) \o SubSeq(seq, i + 1, Len(seq))
ReplaceAt(seq, i, x) == [seq EXCEPT ![i] = x]

ModelCallAts == {"askLLM", "suggestDeckName", "generateCards"}
CallAts == ModelCallAts \cup {"sendRequestToApi"}
CaptureAts == {"picker", "imageToBase64"}

CallsInFlight == {i \in 1..Len(tasks) : tasks[i].at \in CallAts}

\* useState(words.map((w) => ({ ...w, selected: true })))
Seed(words) ==
  [i \in 1..Len(words) |->
     [original |-> words[i].original, translated |-> words[i].translated,
      baseForm |-> words[i].baseForm, selected |-> TRUE]]

\* The SelectionScreen's state lives while RootApp renders it: it is seeded
\* from the words when the screen mounts and lost when it unmounts.
Render(newStep, newProcessing, newWords) ==
  /\ selectedWords' =
       IF newStep = "selection" /\ newProcessing = ""
       THEN (IF Rendered("selection") THEN selectedWords ELSE Seed(newWords))
       ELSE <<>>
  /\ isLoading' = FALSE

Out(a, l, d, u) == alerts' = a /\ logged' = l /\ download' = d /\ unhandled' = u
Quiet == Out(<<>>, <<>>, <<>>, "none")

\* Alert.alert(t(title), t(message)) in RootApp: the alerts shown and the
\* error thrown by evaluating the arguments.
RootAlert(title, message) ==
  IF ModuleScope_t(title) = ReferenceError
  THEN [alerts |-> <<>>, thrown |-> ReferenceError]
  ELSE [alerts |-> <<Alert(ModuleScope_t(title), ModuleScope_t(message))>>, thrown |-> "none"]

(* ------------------------------- Init ----------------------------------- *)
AppInit ==
  /\ step = "language"
  /\ selectedLanguage = Null
  /\ processing = ""
  /\ downloadUrl = ""
  /\ extractedWords = <<>>
  /\ deckName = <<>>
  /\ inputText = <<>>
  /\ selectedWords = <<>>
  /\ isLoading = FALSE
  /\ tasks = <<>>
  /\ alerts = <<>>
  /\ logged = <<>>
  /\ download = <<>>
  /\ unhandled = "none"
  /\ stepBefore = "language"

Init == AppInit /\ pin = <<>> /\ pout = <<>> /\ pfn = "none"

(* --------------------------- user events -------------------------------- *)
\* LanguageScreen.onSelectLanguage
SelectLanguage(lang) ==
  /\ Rendered("language")
  /\ selectedLanguage' = lang
  /\ step' = "input"
  /\ Render("input", processing, extractedWords)
  /\ Quiet
  /\ UNCHANGED <<processing, downloadUrl, extractedWords, deckName, inputText,
                 tasks, stepBefore, parseVars>>

\* InputScreen.onTextInput
ChooseTextInput ==
  /\ Rendered("input")
  /\ step' = "text"
  /\ Render("text", processing, extractedWords)
  /\ Quiet
  /\ UNCHANGED <<selectedLanguage, processing, downloadUrl, extractedWords, deckName,
                 inputText, tasks, stepBefore, parseVars>>

\* handleTakePhoto / handleImageUpload up to the await of the picker.
StartCapture(h) ==
  /\ Rendered("input")
  /\ Cardinality({i \in 1..Len(tasks) : tasks[i].at \in CaptureAts}) < MaxPickers
  /\ tasks' = Append(tasks, Task(h, "picker", "", <<>>, <<>>, <<>>))
  /\ Quiet
  /\ UNCHANGED <<appVars, viewVars, stepBefore, parseVars>>

\* handleTextProcessing: the progress message is set and cleared in the
\* same run, around setInputText and setStep('deckType').
handleTextProcessing(text) ==
  /\ inputText' = text
  /\ step' = "deckType"
  /\ processing' = ""
  /\ Render("deckType", "", extractedWords)

\* TextInputScreen.onSubmit
SubmitText(text) ==
  /\ Rendered("text")
  /\ handleTextProcessing(text)
  /\ stepBefore' = step
  /\ Quiet
  /\ UNCHANGED <<selectedLanguage, downloadUrl, extractedWords, deckName, tasks, parseVars>>

\* handleDeckTypeSelection without its finally: the progress message stays.
GenerationFailed_NoFinally(rest, before) ==
  /\ tasks' = rest
  /\ Out(<<Alert("Error", "Failed to generate cards. Please try again.")>>,
         before \o <<"Error:">>, <<>>, "none")
  /\ UNCHANGED <<step, selectedLanguage, processing, downloadUrl, extractedWords,
                 inputText, viewVars>>

\* The catch and finally of handleDeckTypeSelection; `before` is what the
\* failing callee logged.
GenerationFailed(rest, before) ==
  /\ processing' = ""
  /\ tasks' = rest
  /\ Render(step, "", extractedWords)
  /\ Out(<<Alert("Error", "Failed to generate cards. Please try again.")>>,
         before \o <<"Error:">>, <<>>, "none")
  /\ UNCHANGED <<step, selectedLanguage, downloadUrl, extractedWords, inputText>>

\* handleDeckTypeSelection up to the await of the deck-name call.
SelectDeckType(type) ==
  /\ Rendered("deckType")
  /\ IF selectedLanguage = Null
     THEN \* selectedLanguage.name throws inside the try
          GenerationFailed(tasks, <<>>) /\ UNCHANGED deckName
     ELSE /\ processing' = "Generating cards..."
          /\ tasks' = Append(tasks, Task("handleDeckTypeSelection", "suggestDeckName",
                                         type, inputText, <<>>, deckName))
          /\ Render(step, "Generating cards...", extractedWords)
          /\ Quiet
          /\ UNCHANGED <<step, selectedLanguage, downloadUrl, extractedWords, deckName,
                         inputText>>
  /\ stepBefore' = step
  /\ UNCHANGED parseVars

\* The toggle written as a deselection: selected: false.
Toggled_Deselect(prev, index) == [prev EXCEPT ![index].selected = FALSE]

\* prev.map((word, i) => i === index ? { ...word, selected: !word.selected } : word)
Toggled(prev, index) == [prev EXCEPT ![index].selected = ~prev[index].selected]

\* prev.map((word, i) => (i === index ? { ...word, [field]: value } : word))
Updated(prev, index, field, value) == [prev EXCEPT ![index][field] = value]

\* SelectionScreen.toggleWord
toggleWord(index) ==
  /\ Rendered("selection")
  /\ index \in 1..Len(selectedWords)
  /\ selectedWords' = Toggled(selectedWords, index)
  /\ Quiet
  /\ UNCHANGED <<appVars, isLoading, tasks, stepBefore, parseVars>>

\* SelectionScreen.updateWord, called by onChangeText with the changed text.
updateWord(index, field, value) ==
  /\ Rendered("selection")
  /\ index \in 1..Len(selectedWords)
  /\ selectedWords' = Updated(selectedWords, index, field, value)
  /\ selectedWords' # selectedWords
  /\ Quiet
  /\ UNCHANGED <<appVars, isLoading, tasks, stepBefore, parseVars>>

\* selectedWords.filter((w) => w.selected)
SelectedOf(ws) == SelectSeq(ws, LAMBDA w : w.selected)

\* handleSubmit without the check of an empty selection.
handleSubmit_NoCheck ==
  /\ Rendered("selection")
  /\ processing' = Screen_t("Generating Anki deck...")
  /\ stepBefore' = step
  /\ tasks' = Append(tasks, Task("handleSubmit", "sendRequestToApi", "", <<>>,
                                 SelectedOf(selectedWords), deckName))
  /\ Render(step, Screen_t("Generating Anki deck..."), extractedWords)
  /\ Quiet
  /\ UNCHANGED <<step, selectedLanguage, downloadUrl, extractedWords, deckName,
                 inputText, parseVars>>

\* SelectionScreen.handleSubmit up to the await of sendRequestToApi.  (The
\* button that calls it is rendered disabled while nothing is selected; the
\* handler checks again.)
handleSubmit ==
  /\ Rendered("selection")
  /\ LET finalWords == SelectedOf(selectedWords) IN
     IF Len(finalWords) = 0
     THEN /\ Out(<<Alert(Screen_t("Error"), Screen_t("Please select at least one word."))>>,
                 <<>>, <<>>, "none")
          /\ isLoading' = FALSE
          /\ UNCHANGED <<appVars, selectedWords, tasks, stepBefore>>
     ELSE /\ processing' = Screen_t("Generating Anki deck...")
          /\ stepBefore' = step
          /\ tasks' = Append(tasks, Task("handleSubmit", "sendRequestToApi", "", <<>>,
                                         finalWords, deckName))
          /\ Render(step, Screen_t("Generating Anki deck..."), extractedWords)
          /\ Quiet
          /\ UNCHANGED <<step, selectedLanguage, downloadUrl, extractedWords, deckName,
                         inputText>>
  /\ UNCHANGED parseVars

\* resetApp without its setStep('language').
resetApp_KeepsStep ==
  /\ Rendered("result")
  /\ selectedLanguage' = Null
  /\ processing' = ""
  /\ downloadUrl' = ""
  /\ extractedWords' = <<>>
  /\ Render(step, "", <<>>)
  /\ Quiet
  /\ UNCHANGED <<step, deckName, inputText, tasks, stepBefore, parseVars>>

\* ResultScreen.onReset
resetApp ==
  /\ Rendered("result")
  /\ step' = "language"
  /\ selectedLanguage' = Null
  /\ processing' = ""
  /\ downloadUrl' = ""
  /\ extractedWords' = <<>>
  /\ Render("language", "", <<>>)
  /\ Quiet
  /\ UNCHANGED <<deckName, inputText, tasks, stepBefore, parseVars>>

(* ------------------------ asynchronous completions ---------------------- *)
CaptureResults == {"canceled", "image", "throws"}

\* The error message of the handler that awaited the picker.
CaptureMessage(h) ==
  IF h = "handleTakePhoto" THEN "Could not take photo" ELSE "Could not upload image"
CaptureLog(h) ==
  IF h = "handleTakePhoto" THEN "Error taking photo:" ELSE "Error uploading image:"

\* The catch of processImage: console.error, Alert.alert(t(..), t(..)) and
\* setProcessing('').  When evaluating t throws, the error leaves
\* processImage before setProcessing('') and reaches the catch of the
\* handler that awaits it, whose own Alert.alert(t(..), ..) throws again.
ProcessImageFailed(i, before) ==
  LET a == RootAlert("Error", "Image processing failed") IN
  /\ tasks' = RemoveAt(tasks, i)
  /\ IF a.thrown = "none"
     THEN /\ processing' = ""
          /\ Render(step, "", extractedWords)
          /\ Out(a.alerts, before \o <<"Error processing image:">>, <<>>, "none")
     ELSE /\ UNCHANGED <<processing, viewVars>>
          /\ Out(<<>>, before \o <<"Error processing image:", CaptureLog(tasks[i].h)>>,
                 <<>>, RootAlert("Error", CaptureMessage(tasks[i].h)).thrown)
  /\ UNCHANGED <<step, selectedLanguage, downloadUrl, extractedWords, deckName, inputText>>

\* The picker's promise settles (handleTakePhoto / handleImageUpload), or the
\* image conversion awaited by processImage does.
CaptureResolves(i, res) ==
  /\ i \in 1..Len(tasks)
  /\ tasks[i].at \in CaptureAts
  /\ IF tasks[i].at = "picker"
     THEN CASE res = "canceled" ->
                 /\ tasks' = RemoveAt(tasks, i)
                 /\ Quiet
                 /\ UNCHANGED <<appVars, viewVars, stepBefore>>
            [] res = "throws" ->
                 LET a == RootAlert("Error", CaptureMessage(tasks[i].h)) IN
                 /\ tasks' = RemoveAt(tasks, i)
                 /\ Out(a.alerts, <<CaptureLog(tasks[i].h)>>, <<>>, a.thrown)
                 /\ UNCHANGED <<appVars, viewVars, stepBefore>>
            [] OTHER -> \* processImage(uri): setProcessing(t('Processing image...'))
                 IF ModuleScope_t("Processing image...") = ReferenceError
                 THEN ProcessImageFailed(i, <<>>) /\ UNCHANGED stepBefore
                 ELSE /\ processing' = ModuleScope_t("Processing image...")
                      /\ stepBefore' = step
                      /\ tasks' = ReplaceAt(tasks, i, [tasks[i] EXCEPT !.at = "imageToBase64"])
                      /\ Render(step, ModuleScope_t("Processing image..."), extractedWords)
                      /\ Quiet
                      /\ UNCHANGED <<step, selectedLanguage, downloadUrl, extractedWords,
                                     deckName, inputText>>
     ELSE /\ res # "canceled"
          /\ IF res = "throws"
             THEN ProcessImageFailed(i, <<"Error converting image to Base64:">>)
             ELSE /\ tasks' = ReplaceAt(tasks, i, [tasks[i] EXCEPT !.at = "askLLM"])
                  /\ Quiet
                  /\ UNCHANGED <<appVars, viewVars>>
          /\ UNCHANGED stepBefore
  /\ UNCHANGED parseVars

\* What the model service can answer to the call a task awaits.
ModelOutcomes(task) ==
  {Failed} \cup
  {Answered(x) : x \in
     CASE task.at = "suggestDeckName" -> NameResponses
       [] task.at = "askLLM" -> ImageResponses
       [] task.type = "vocabulary" -> VocabResponses
       [] OTHER -> QAResponses}

\* What askLLM and sendRequestToFlashExp log when the call fails.
CallFailedLog == <<"Error in askLLM:", "Error sending request to GPT-4o:">>

\* processImage after await askLLM(...): askLLM returns a non-empty text or throws.
ImageExtracted(i, o) ==
  IF o.ok
  THEN /\ handleTextProcessing(o.text)
       /\ tasks' = RemoveAt(tasks, i)
       /\ Quiet
       /\ UNCHANGED <<selectedLanguage, downloadUrl, extractedWords, deckName>>
  ELSE ProcessImageFailed(i, <<"Error in askLLM:">>)

\* handleDeckTypeSelection after await sendRequestToFlashExp(deckNamePrompt).
DeckNameSuggested(i, o) ==
  IF o.ok
  THEN /\ deckName' = Trim(o.text)
       /\ tasks' = ReplaceAt(tasks, i, [tasks[i] EXCEPT !.at = "generateCards"])
       /\ Quiet
       /\ UNCHANGED <<step, selectedLanguage, processing, downloadUrl, extractedWords,
                      inputText, viewVars>>
  ELSE GenerationFailed(RemoveAt(tasks, i), CallFailedLog) /\ UNCHANGED deckName

\* The entries of a model answer for a deck type.
ParseCards(type, text) ==
  IF type = "vocabulary" THEN parseVocabulary(text) ELSE parseQA(text)

\* handleDeckTypeSelection with setStep('selection') ahead of the parsing.
CardsGenerated_StepFirst(i, o) ==
  IF o.ok
  THEN /\ extractedWords' = IF tasks[i].type = "qa" /\ parseQAThrows(o.text)
                            THEN extractedWords
                            ELSE ParseCards(tasks[i].type, o.text)
       /\ step' = "selection"
       /\ processing' = ""
       /\ tasks' = RemoveAt(tasks, i)
       /\ Render("selection", "", extractedWords')
       /\ IF tasks[i].type = "qa" /\ parseQAThrows(o.text)
          THEN Out(<<Alert("Error", "Failed to generate cards. Please try again.")>>,
                   <<"Error:">>, <<>>, "none")
          ELSE Quiet
       /\ UNCHANGED <<selectedLanguage, downloadUrl, deckName, inputText>>
  ELSE GenerationFailed(RemoveAt(tasks, i), IF o.ok THEN <<>> ELSE CallFailedLog)
       /\ UNCHANGED deckName

\* handleDeckTypeSelection after await sendRequestToFlashExp(prompt).
CardsGenerated(i, o) ==
  IF o.ok /\ ~(tasks[i].type = "qa" /\ parseQAThrows(o.text))
  THEN /\ extractedWords' = ParseCards(tasks[i].type, o.text)
       /\ step' = "selection"
       /\ processing' = ""
       /\ tasks' = RemoveAt(tasks, i)
       /\ Render("selection", "", extractedWords')
       /\ Quiet
       /\ UNCHANGED <<selectedLanguage, downloadUrl, deckName, inputText>>
  ELSE GenerationFailed(RemoveAt(tasks, i), IF o.ok THEN <<>> ELSE CallFailedLog)
       /\ UNCHANGED deckName

\* A call to the model service settles.
ModelCallResolves(i, o) ==
  /\ i \in 1..Len(tasks)
  /\ tasks[i].at \in ModelCallAts
  /\ o \in ModelOutcomes(tasks[i])
  /\ CASE tasks[i].at = "askLLM" -> ImageExtracted(i, o)
       [] tasks[i].at = "suggestDeckName" -> DeckNameSuggested(i, o)
       [] OTHER -> CardsGenerated(i, o)
  /\ UNCHANGED <<stepBefore, parseVars>>

\* handleSubmit with onSubmit(null) called whatever the call's result.
DeckServiceResolves_AlwaysAdvance(i, o) ==
  /\ i \in 1..Len(tasks)
  /\ tasks[i].at = "sendRequestToApi"
  /\ LET r == sendRequestToApi(tasks[i].words, tasks[i].name, o) IN
     /\ downloadUrl' = Null
     /\ step' = "result"
     /\ processing' = ""
     /\ Render("result", "", extractedWords)
     /\ IF r.success
        THEN Out(<<Alert(Screen_t("Success!"), Screen_t("Your Anki deck has been downloaded!"))>>,
                 <<>>, <<FileName(tasks[i].name)>>, "none")
        ELSE Out(<<Alert(Screen_t("Error"), r.message)>>,
                 <<"API request error:", "Error creating Anki deck:">>, <<>>, "none")
     /\ UNCHANGED <<selectedLanguage, extractedWords, deckName, inputText>>
  /\ tasks' = RemoveAt(tasks, i)
  /\ UNCHANGED <<stepBefore, parseVars>>

\* SelectionScreen.handleSubmit after await sendRequestToApi(finalWords, deckName).
DeckServiceResolves(i, o) ==
  /\ i \in 1..Len(tasks)
  /\ tasks[i].at = "sendRequestToApi"
  /\ LET r == sendRequestToApi(tasks[i].words, tasks[i].name, o) IN
     IF r.success
     THEN \* onSubmit(null): setDownloadUrl(null); setStep('result')
          /\ downloadUrl' = Null
          /\ step' = "result"
          /\ processing' = ""
          /\ Render("result", "", extractedWords)
          /\ Out(<<Alert(Screen_t("Success!"), Screen_t("Your Anki deck has been downloaded!"))>>,
                 <<>>, <<FileName(tasks[i].name)>>, "none")
          /\ UNCHANGED <<selectedLanguage, extractedWords, deckName, inputText>>
     ELSE /\ processing' = ""
          /\ Render(step, "", extractedWords)
          /\ Out(<<Alert(Screen_t("Error"), r.message)>>,
                 <<"API request error:", "Error creating Anki deck:">>, <<>>, "none")
          /\ UNCHANGED <<step, selectedLanguage, downloadUrl, extractedWords, deckName,
                         inputText>>
  /\ tasks' = RemoveAt(tasks, i)
  /\ UNCHANGED <<stepBefore, parseVars>>

(* --------------------------- specification ------------------------------ *)
UserEvent ==
  \/ \E lang \in Languages : SelectLanguage(lang)
  \/ ChooseTextInput
  \/ \E h \in {"handleTakePhoto", "handleImageUpload"} : StartCapture(h)
  \/ \E text \in Texts : SubmitText(text)
  \/ \E type \in {"vocabulary", "qa"} : SelectDeckType(type)
  \/ \E index \in 1..Len(selectedWords) : toggleWord(index)
  \/ \E index \in 1..Len(selectedWords), field \in {"translated", "original"},
        value \in EditValues : updateWord(index, field, value)
  \/ handleSubmit
  \/ resetApp

Completion ==
  \/ \E i \in 1..Len(tasks), res \in CaptureResults : CaptureResolves(i, res)
  \/ \E i \in 1..Len(tasks) : \E o \in ModelOutcomes(tasks[i]) : ModelCallResolves(i, o)
  \/ \E i \in 1..Len(tasks), o \in DeckOutcomes : DeckServiceResolves(i, o)

Next == UserEvent \/ Completion

Spec == Init /\ [][Next]_vars

\* Every picker, conversion and call settles eventually (each has a result,
\* an error or a timeout).
FairSpec == Spec /\ WF_vars(Completion)

(* ------------------------- the parsers, applied ------------------------- *)
\* The example of the specification, a;b / cccc / d;e, in this alphabet.
ExampleInputs ==
  { <<"a", ";", "a", NL, "a", "a", "a", "a", NL, "a", ";", "a">> }

\* Model outputs in the shapes the prompts ask for, word by word.
Words == { <<"a">>, <<"b">>, <<"c", SP, "c">> }

\* word;translation
PlainLine(word, translation) == word \o <<";">> \o translation

\* base (orig);translation
FormLine(base, orig, translation) ==
  base \o <<SP, "(">> \o orig \o <<")", ";">> \o translation

\* A line with a second `;`.
ListLine(word, translation, more) ==
  word \o <<";">> \o translation \o <<";">> \o more

VocabularyLines ==
  {PlainLine(w, tr) : w \in Words, tr \in Words}
    \cup {FormLine(b, o, tr) : b \in Words, o \in Words, tr \in Words}
    \cup {ListLine(w, tr, m) : w \in Words, tr \in Words, m \in Words}

VocabularyTexts ==
  VocabularyLines \cup {l1 \o <<NL>> \o l2 : l1 \in VocabularyLines, l2 \in VocabularyLines}

\* F: q / A: a
QAWellFormed(q, a) == MarkF \o q \o <<NL>> \o MarkA \o a

\* A block of two lines, of one line, of three lines.
QABlockForms ==
  {QAWellFormed(q, a) : q \in Words, a \in Words}
    \cup {MarkF \o q : q \in Words}
    \cup {QAWellFormed(q, a) \o <<NL>> \o w : q \in Words, a \in Words, w \in Words}

QATexts ==
  QABlockForms \cup {b1 \o <<NL, NL>> \o b2 : b1 \in QABlockForms, b2 \in QABlockForms}

ParseInputs == StringsUpTo(MaxLen) \cup ExampleInputs \cup VocabularyTexts \cup QATexts

InitParse == AppInit /\ pin \in ParseInputs /\ pout = <<>> /\ pfn = "none"

\* The vocabulary branch of handleDeckTypeSelection applied to a model output.
ApplyParseVocabulary ==
  /\ pfn = "none"
  /\ pfn' = "parseVocabulary"
  /\ pout' = parseVocabulary(pin)
  /\ UNCHANGED <<appVars, viewVars, tasks, outVars, stepBefore, pin>>

\* The qa branch applied to a model output.
ApplyParseQA ==
  /\ pfn = "none"
  /\ pfn' = IF parseQAThrows(pin) THEN "parseQA:TypeError" ELSE "parseQA"
  /\ pout' = IF parseQAThrows(pin) THEN <<>> ELSE parseQA(pin)
  /\ UNCHANGED <<appVars, viewVars, tasks, outVars, stepBefore, pin>>

NextParse == ApplyParseVocabulary \/ ApplyParseQA

SpecParse == InitParse /\ [][NextParse]_vars

(* ------------------------- the clients, applied ------------------------- *)
\* Entries as the Selection Editor hands them over: parsed or typed texts,
\* white space around them included, and the undefined of a line without `;`.
EntryTexts == { <<"a">>, <<"a", SP>>, <<"b">> }

Entries ==
  [translated : EntryTexts \cup {Undefined}, original : { <<"x">>, <<SP, "y">> },
   baseForm : {Undefined}, selected : BOOLEAN]

EntryLists == UNION {[1..k -> Entries] : k \in 0..MaxEntries}

OneEntry ==
  << [translated |-> <<"a">>, original |-> <<"x">>, baseForm |-> Undefined,
      selected |-> TRUE] >>

\* Error responses of the relay: each status with each kind of body.
ErrorResponses ==
  { [kind |-> "http", status |-> st, body |-> b[1], msg |-> b[2],
     code |-> IF st < 500 THEN "ERR_BAD_REQUEST" ELSE "ERR_BAD_RESPONSE"] :
      st \in {400, 404, 413, 415, 429, 500},
      b \in { <<"jsonError", "too big">>, <<"jsonMessage", "quota">>,
              <<"jsonOther", "{}">>, <<"text", "Bad Gateway">>,
              <<"empty", "">>, <<"noBuffer", "">> } }

\* A request that ended without a response: timed out, failed in the
\* transport, or sent with nothing coming back.
NoResponses ==
  { [kind |-> "none", status |-> 0, body |-> "", msg |-> "", code |-> c] :
      c \in {"ECONNABORTED", "ERR_NETWORK", "ETIMEDOUT"} }

RelayOutcomes == DeckOutcomes \cup ErrorResponses \cup NoResponses

DeckInputs ==
  { [fn |-> "sendRequestToApi", vocabulary |-> es, deckName |-> n,
     o |-> [kind |-> "ok", status |-> 200, body |-> "binary", code |-> "", msg |-> ""]] :
      es \in EntryLists, n \in { <<>>, <<"d">> } }
  \cup
  { [fn |-> "sendRequestToApi", vocabulary |-> OneEntry, deckName |-> <<"d">>, o |-> o] :
      o \in RelayOutcomes }

\* process.env.GEMINI_API_KEY: unset, or a key.
ApiKeys == { Undefined, <<"k">> }

ModelInputs ==
  { [fn |-> "askLLM", prompt |-> p, base64Image |-> img, key |-> key, reply |-> r] :
      p \in { <<>>, <<"p">> }, img \in { Undefined, <<"i">> },
      key \in ApiKeys, r \in FetchOutcomes }

InitClient ==
  /\ AppInit
  /\ pin \in DeckInputs \cup ModelInputs
  /\ pout = <<>>
  /\ pfn = "none"

\* sendRequestToApi(vocabulary, deckName), the relay answering pin.o: the
\* payloads it posts and what it resolves or rejects with.
ApplySendRequestToApi ==
  /\ pfn = "none"
  /\ pin.fn = "sendRequestToApi"
  /\ pfn' = "sendRequestToApi"
  /\ LET r == sendRequestToApi(pin.vocabulary, pin.deckName, pin.o) IN
       pout' = [requests |-> IF r.requested
                             THEN <<buildPayload(pin.vocabulary, pin.deckName)>>
                             ELSE <<>>,
                result   |-> r]
  /\ UNCHANGED <<appVars, viewVars, tasks, outVars, stepBefore, pin>>

\* askLLM({prompt, base64Image}), the service answering pin.reply.
ApplyAskLLM ==
  /\ pfn = "none"
  /\ pin.fn = "askLLM"
  /\ pfn' = "askLLM"
  /\ pout' = askLLM(pin.prompt, pin.base64Image, pin.key, pin.reply)
  /\ UNCHANGED <<appVars, viewVars, tasks, outVars, stepBefore, pin>>

NextClient == ApplySendRequestToApi \/ ApplyAskLLM

SpecClient == InitClient /\ [][NextClient]_vars

(* ------------------------------- claims --------------------------------- *)
WorkflowEdges ==
  { <<"language", "input">>, <<"input", "text">>, <<"input", "deckType">>,
    <<"text", "deckType">>, <<"deckType", "selection">>, <<"selection", "result">>,
    <<"result", "language">> }

HasLog(l, tag) == \E k \in 1..Len(l) : l[k] = tag

\* C1: step changes only along the edges language->input, input->text,
\* input->deckType, text->deckType, deckType->selection, selection->result
\* and result->language, whatever the interleaving of user events and
\* completions of pickers and calls.
C1_StepFollowsEdges == [][step' # step => <<step, step'>> \in WorkflowEdges]_vars

\* C1 witness: the cycle was walked to its end and reset, and a picker opened
\* before then delivered an image on the language screen.
C1_Witness ==
  /\ step = "language"
  /\ deckName # <<>>
  /\ HasLog(logged, "Error processing image:")

\* C2: once step is result, the only event that changes step is resetApp,
\* which sets it to language; no completion of an earlier picker or call
\* moves the workflow out of result.
C2_OnlyResetLeavesResult == [][step = "result" /\ step' # step => resetApp]_vars

\* C2 witness: on the result screen a picker opened earlier delivered an
\* image, and step is still result.
C2_Witness ==
  /\ step = "result"
  /\ HasLog(logged, "Error processing image:")

\* C3: the reset taken from result sets step to language and clears all
\* carried payload: selectedLanguage null, extractedWords empty, deckName
\* empty, likewise the raw content and the processing message.
C3_ResetClearsPayload ==
  [][step = "result" /\ step' = "language" =>
        /\ selectedLanguage' = Null
        /\ extractedWords' = <<>>
        /\ deckName' = <<>>
        /\ inputText' = <<>>
        /\ processing' = ""]_vars

ValidationAlert == Alert("Error", "Please select at least one word.")

\* C4: when submit is triggered while no entry is selected, a validation
\* error is reported, no request goes to the deck service, the processing
\* indicator is not set, and step remains selection.
C4_EmptySelectionBlocked ==
  [][(Rendered("selection") /\ SelectedOf(selectedWords) = <<>>) =>
        /\ step' = "selection"
        /\ processing' = ""
        /\ {k \in 1..Len(tasks') : tasks'[k].at = "sendRequestToApi"} = {}
        /\ (handleSubmit => alerts' = <<ValidationAlert>>)]_vars

\* C4 witness: entries exist, none is selected, and the submit handler has
\* just reported the validation error.
C4_Witness ==
  /\ Rendered("selection")
  /\ Len(selectedWords) > 0
  /\ SelectedOf(selectedWords) = <<>>
  /\ alerts = <<ValidationAlert>>

\* C5: a submit with at least one selected entry invokes the deck service
\* exactly once; step becomes result if and only if that call succeeded, and
\* if it fails step remains selection and a message is shown.
C5_SubmitOnceAndAdvanceOnSuccess ==
  [][/\ (handleSubmit /\ SelectedOf(selectedWords) # <<>>) =>
          /\ Len(tasks') = Len(tasks) + 1
          /\ tasks'[Len(tasks')].at = "sendRequestToApi"
          /\ Cardinality({k \in 1..Len(tasks') : tasks'[k].at = "sendRequestToApi"}) = 1
     /\ \A i \in 1..Len(tasks) : \A o \in DeckOutcomes :
          DeckServiceResolves(i, o) =>
            LET r == sendRequestToApi(tasks[i].words, tasks[i].name, o) IN
            /\ step = "selection"
            /\ (step' = "result") <=> r.success
            /\ {k \in 1..Len(tasks') : tasks'[k].at = "sendRequestToApi"} = {}
            /\ ~r.success => step' = "selection" /\ alerts' = <<Alert("Error", r.message)>>]_vars

\* C5 witness: the deck-service call failed, its message is shown and the
\* selection screen is back.
C5_Witness ==
  /\ Rendered("selection")
  /\ HasLog(logged, "Error creating Anki deck:")
  /\ Len(alerts) = 1

\* C6: when an image extraction, text processing or card generation call
\* fails, step after the failure is handled equals the value it had before
\* the processing indicator was set for that call; a failed call never
\* advances step.
C6_FailureKeepsStep ==
  [][/\ HasLog(logged', "Error:") => step' = stepBefore' /\ step' = step
     /\ HasLog(logged', "Error processing image:") => step' = step]_vars

\* C6 witness: the deck name was suggested, then the card generation failed
\* (the call, or the parsing of its answer), and step is still deckType.
C6_Witness ==
  /\ HasLog(logged, "Error:")
  /\ deckName # <<>>
  /\ Rendered("deckType")

\* C7: at most one model call or deck-service call is in flight at any
\* time, also when two captures were started from the input screen before
\* either picker returned.
C7_AtMostOneCall == Cardinality(CallsInFlight) <= 1

\* C7 witness: a call is in flight while two pickers started on the input
\* screen are still pending.
C7_Witness ==
  /\ Cardinality(CallsInFlight) = 1
  /\ Cardinality({k \in 1..Len(tasks) : tasks[k].at = "picker"}) = 2

\* C8 as stated: step is never changed while processing is non-empty,
\* processing is non-empty only while a call is in flight, and every state
\* with processing non-empty is eventually followed by one with it empty.
C8_StepOnlyAfterClear ==
  /\ [][step' # step => processing = ""]_vars
  /\ [](processing # "" => CallsInFlight # {})
  /\ ((processing # "") ~> (processing = ""))

\* C8 amended: a handler run that changes step leaves processing empty (it
\* sets step first and clears the indicator in its finally, in the same
\* run); processing is non-empty only while a call is in flight; and every
\* state with processing non-empty is eventually followed by one with it
\* empty.
C8_StepAndClearTogether ==
  /\ [][step' # step => processing' = ""]_vars
  /\ [](processing # "" => CallsInFlight # {})
  /\ ((processing # "") ~> (processing = ""))

\* C8 witness: the card generation resolved while the indicator was set;
\* step moved to selection and the indicator is empty.
C8_Witness ==
  /\ step = "selection"
  /\ stepBefore = "deckType"
  /\ processing = ""
  /\ extractedWords # <<>>

\* C9: every failure of an asynchronous operation is caught inside the
\* workflow handlers and converted into exactly one user-visible message; no
\* handler ends with an uncaught exception or unhandled rejection.
C9_FailuresCaughtOneMessage ==
  /\ unhandled = "none"
  /\ logged # <<>> => Len(alerts) = 1

\* The trimmed non-empty lines of a text that contain a `;`.
LinesWithSemicolon(text) ==
  LET ls == Split(text, NL) IN
  {k \in 1..Len(ls) : Trim(ls[k]) # <<>> /\ IndexOf(ls[k], ";") # 0}

\* C10: vocabulary parsing drops every non-empty line without `;`: the
\* number of entries equals the number of trimmed non-empty lines that
\* contain a `;`.
C10_LinesWithoutSemicolonDropped ==
  pfn = "parseVocabulary" => Len(pout) = Cardinality(LinesWithSemicolon(pin))

\* C11: after normalization every entry of extractedWords has both
\* `translated` and `original` present and non-empty, whatever the model
\* answered.
C11_EntriesComplete ==
  \A k \in 1..Len(extractedWords) :
     /\ extractedWords[k].translated \notin {Undefined, <<>>}
     /\ extractedWords[k].original \notin {Undefined, <<>>}

\* The trimmed non-empty lines of a model output, in order.
VocabLines(text) == FilterNonEmpty(MapTrim(Split(text, NL)))

HasNoParens(s) == \A k \in 1..Len(s) : s[k] \notin {"(", ")"}

\* word;translation with one `;` and no parenthesis in the word.
IsPlainLine(line) ==
  /\ Len(Split(line, ";")) = 2
  /\ HasNoParens(Split(line, ";")[1])

\* C12: a vocabulary line word;translation without a parenthesized form
\* yields original = word, translated = translation and baseForm undefined.
C12_PlainLineNoBaseForm ==
  pfn = "parseVocabulary" =>
    \A k \in 1..Len(VocabLines(pin)) :
       LET parts == Split(VocabLines(pin)[k], ";") IN
       IsPlainLine(VocabLines(pin)[k]) =>
         pout[k] = [original |-> Trim(parts[1]), translated |-> Trim(parts[2]),
                    baseForm |-> Undefined]

\* C12 as amended: such a line yields original = word, translated =
\* translation and baseForm = word.
C12_PlainLineBaseIsWord ==
  pfn = "parseVocabulary" =>
    \A k \in 1..Len(VocabLines(pin)) :
       LET parts == Split(VocabLines(pin)[k], ";") IN
       IsPlainLine(VocabLines(pin)[k]) =>
         pout[k] = [original |-> Trim(parts[1]), translated |-> Trim(parts[2]),
                    baseForm |-> Trim(parts[1])]

C12_Witness ==
  /\ pfn = "parseVocabulary"
  /\ pin = PlainLine(<<"a">>, <<"b">>)
  /\ pout = << [original |-> <<"a">>, translated |-> <<"b">>, baseForm |-> <<"a">>] >>

\* C13: a vocabulary line base (orig);translation yields original = orig,
\* translated = translation and baseForm = base; the entries follow the
\* lines in order, one entry per line, equal lines giving equal entries.
C13_FormLineParsed ==
  pfn = "parseVocabulary" =>
    /\ Len(pout) = Len(VocabLines(pin))
    /\ \A k \in 1..Len(VocabLines(pin)) :
         \A b \in Words, o \in Words, tr \in Words :
            VocabLines(pin)[k] = FormLine(b, o, tr) =>
              pout[k] = [original |-> o, translated |-> tr, baseForm |-> b]

C13_Witness ==
  /\ pfn = "parseVocabulary"
  /\ pin = FormLine(<<"a">>, <<"b">>, <<"c", SP, "c">>) \o <<NL>>
             \o FormLine(<<"a">>, <<"b">>, <<"c", SP, "c">>)
  /\ Len(pout) = 2
  /\ pout[1] = pout[2]
  /\ pout[1].original = <<"b">>

\* C14: in a vocabulary line with more than one `;` only the first one
\* separates: translated is the trimmed text after the first `;`, later `;`
\* and what follows them included.
C14_OnlyFirstSemicolonSplits ==
  pfn = "parseVocabulary" =>
    \A k \in 1..Len(VocabLines(pin)) :
       LET line == VocabLines(pin)[k] IN
       Len(Split(line, ";")) > 2 =>
         pout[k].translated = Trim(SubSeq(line, IndexOf(line, ";") + 1, Len(line)))

\* C15: Q&A parsing completes on every model output and yields one record
\* per block, a block of one line or of more than two lines included; a
\* well-formed block F: q / A: a yields translated = q and original = a.
C15_MalformedBlocksPassThrough ==
  pfn \in {"parseQA", "parseQA:TypeError"} =>
    /\ pfn = "parseQA"
    /\ Len(pout) = Len(QABlocks(pin))
    /\ \A k \in 1..Len(pout) : \A q \in Words, a \in Words :
          QABlocks(pin)[k] = QAWellFormed(q, a) =>
            pout[k].translated = q /\ pout[k].original = a

\* The last entry whose translated value, seen through f, equals key.
LastWith(es, f(_), key) ==
  CHOOSE k \in 1..Len(es) :
    /\ f(es[k].translated) = key
    /\ \A j \in (k + 1)..Len(es) : f(es[j].translated) # key

Same(x) == x

\* C16: the payload maps each entry's translated value to its original
\* value, for every entry whatever its selected flag; two entries share a
\* key only when their translated values are equal, and then the later
\* entry's original is kept.
C16_PayloadMapsTranslatedToOriginal ==
  pfn = "sendRequestToApi" /\ pout.requests # <<>> =>
    LET es  == pin.vocabulary
        voc == pout.requests[1].vocabulary
    IN /\ DOMAIN voc = {es[k].translated : k \in 1..Len(es)}
       /\ \A key \in DOMAIN voc : voc[key] = es[LastWith(es, Same, key)].original

\* C16 as amended: the payload maps each entry's trimmed translated value to
\* its trimmed original value, for every entry whatever its selected flag;
\* two entries share a key exactly when their translated values are equal
\* after trimming, and then the later entry's original is kept; when an entry
\* has no translated value no payload is posted.
C16_PayloadMapsTrimmed ==
  pfn = "sendRequestToApi" =>
    LET es == pin.vocabulary IN
    IF \E k \in 1..Len(es) : es[k].translated = Undefined
    THEN pout.requests = <<>> /\ ~pout.result.success
    ELSE /\ Len(pout.requests) = 1
         /\ LET voc == pout.requests[1].vocabulary IN
              /\ DOMAIN voc = {Trim(es[k].translated) : k \in 1..Len(es)}
              /\ \A key \in DOMAIN voc :
                   voc[key] = Trim(es[LastWith(es, Trim, key)].original)

C16_Witness ==
  /\ pfn = "sendRequestToApi"
  /\ Len(pin.vocabulary) = 2
  /\ pin.vocabulary[1].translated = <<"a">>
  /\ pin.vocabulary[2].translated = <<"a", SP>>
  /\ pin.vocabulary[1].original = <<"x">>
  /\ pin.vocabulary[2].original = <<SP, "y">>
  /\ ~pin.vocabulary[2].selected
  /\ Len(pout.requests) = 1
  /\ DOMAIN pout.requests[1].vocabulary = { <<"a">> }
  /\ pout.requests[1].vocabulary[<<"a">>] = <<"y">>

\* C17: an error response whose body is JSON with an `error` (or `message`)
\* field is reported with exactly that field's text as its message, whatever
\* the status code.
C17_StructuredBodyFirst ==
  pfn = "sendRequestToApi" /\ pin.o.kind = "http"
      /\ pin.o.body \in {"jsonError", "jsonMessage"} =>
    /\ ~pout.result.success
    /\ pout.result.message = pin.o.msg

C17_Witness ==
  /\ pfn = "sendRequestToApi"
  /\ pin.o.kind = "http"
  /\ pin.o.status = 413
  /\ pin.o.body = "jsonError"
  /\ pout.result.message = "too big"

\* The table of the specification: the message for each status.
TableMessage(status) ==
  CASE status = 400 -> "Bad Request"
    [] status = 413 -> "List too large"
    [] status = 415 -> "Invalid content type"
    [] status = 429 -> "Too many requests"
    [] status = 500 -> "Server error"
    [] OTHER        -> "Server error (" \o ToString(status) \o ")"

\* C18: an error response without a decodable structured body (empty,
\* not JSON, or JSON without `error`/`message`) is classified by its status:
\* 400, 413, 415, 429 and 500 each with their own message, any other status
\* with the number in the message.
C18_StatusTableWithoutBody ==
  pfn = "sendRequestToApi" /\ pin.o.kind = "http"
      /\ pin.o.body \in {"empty", "text", "jsonOther", "noBuffer"} =>
    /\ ~pout.result.success
    /\ pout.result.message = TableMessage(pin.o.status)

\* C19: a request that ends without a response is reported as a timeout for
\* ECONNABORTED, as a network failure for ERR_NETWORK, and otherwise as no
\* response from the server: three different outcomes.
C19_NoResponseCasesDistinct ==
  pfn = "sendRequestToApi" /\ pin.o.kind = "none" =>
    /\ ~pout.result.success
    /\ pout.result.message =
         CASE pin.o.code = "ECONNABORTED" -> "Request timeout"
           [] pin.o.code = "ERR_NETWORK"  -> "Network error"
           [] OTHER                       -> "No server response"

\* C20: with no API key configured a model call fails before any request is
\* issued: no request goes to the model service without a key.
C20_NoRequestWithoutKey ==
  pfn = "askLLM" /\ pin.key = Undefined =>
    /\ pout.requests = <<>>
    /\ ~pout.result.ok

\* Entry k of a working copy is the same in both, except perhaps for one field.
SameBut(before, after, k, field) ==
  \A f \in DOMAIN before[k] : f # field => after[k][f] = before[k][f]

\* Only the field of the entry at index differs between the two copies.
OnlyChanged(before, after, index, field) ==
  /\ Len(after) = Len(before)
  /\ \A k \in 1..Len(before) :
       IF k = index
       THEN DOMAIN after[k] = DOMAIN before[k] /\ SameBut(before, after, k, field)
       ELSE after[k] = before[k]

\* C21: in the selection screen a toggle of index i changes only entry i's
\* `selected` flag and toggling i again gives back the copy as it was; an
\* edit of a field of entry i changes only that field; the other entries,
\* the other fields, the length and the order stay.
C21_ToggleAndEditAreLocal ==
  [][ /\ \A i \in 1..Len(selectedWords) :
           toggleWord(i) =>
             /\ OnlyChanged(selectedWords, selectedWords', i, "selected")
             /\ selectedWords'[i].selected # selectedWords[i].selected
             /\ Toggled(selectedWords', i) = selectedWords
      /\ \A i \in 1..Len(selectedWords) :
           \A field \in {"translated", "original"}, value \in EditValues :
              updateWord(i, field, value) =>
                /\ OnlyChanged(selectedWords, selectedWords', i, field)
                /\ selectedWords'[i][field] = value ]_vars

\* A copy of two entries after a toggle of the second and an edit of the first.
C21_Witness ==
  /\ Rendered("selection")
  /\ Len(selectedWords) = 2
  /\ ~selectedWords[2].selected
  /\ selectedWords[1].selected
  /\ selectedWords[1].translated = <<"a", "a">>
  /\ selectedWords[2].translated = extractedWords[2].translated

\* The indices of the entries a working copy has selected.
SelectedIndices(ws) == {k \in 1..Len(ws) : ws[k].selected}

\* es lists the selected entries of ws, each once, in their order.
IsSelectionOf(es, ws) ==
  /\ Len(es) = Cardinality(SelectedIndices(ws))
  /\ \A j \in 1..Len(es) :
       \E k \in SelectedIndices(ws) :
          /\ es[j] = ws[k]
          /\ Cardinality({x \in SelectedIndices(ws) : x < k}) = j - 1

\* C22: on submit the deck service is sent exactly the entries selected at
\* that moment, as edited: the entries handed to sendRequestToApi are the
\* selected ones, a payload is posted, and its keys are those of the selected
\* entries and of no other.
C22_SelectedEntriesSent ==
  [][ handleSubmit /\ SelectedIndices(selectedWords) # {} =>
        LET es == tasks'[Len(tasks')].words
            sent == sendRequestToApi(es, deckName,
                      [kind |-> "ok", status |-> 200, body |-> "binary",
                       code |-> "", msg |-> ""])
        IN /\ IsSelectionOf(es, selectedWords)
           /\ sent.requested
           /\ DOMAIN buildPayload(es, deckName).vocabulary =
                {Trim(selectedWords[k].translated) : k \in SelectedIndices(selectedWords)} ]_vars

\* C23: from the input screen, a picker that returns an image has the image
\* routed through the extraction, and when the extraction call answers with
\* a text the workflow is at deckType with inputText equal to that text and
\* the progress message cleared; a cancelled picker makes no model call and
\* leaves the state as it was.
C23_CaptureAdvancesToDeckType ==
  [][ \A i \in 1..Len(tasks) :
        /\ tasks[i].at = "picker" /\ CaptureResolves(i, "image") =>
             /\ Len(tasks') = Len(tasks)
             /\ tasks'[i].at \in {"imageToBase64", "askLLM"}
        /\ tasks[i].at = "askLLM" =>
             \A text \in ImageResponses :
                ModelCallResolves(i, Answered(text)) =>
                  step' = "deckType" /\ inputText' = text /\ processing' = ""
        /\ tasks[i].at = "picker" /\ CaptureResolves(i, "canceled") =>
             /\ UNCHANGED appVars
             /\ tasks' = RemoveAt(tasks, i) ]_vars

\* C24: when a deck-type generation fails (the deck-name call, the card
\* call or the parsing) and step stays deckType, deckName, extractedWords,
\* inputText and selectedLanguage have the values they had when the
\* generation was started.
C24_FailedGenerationKeepsPayload ==
  [][ \A i \in 1..Len(tasks) :
        tasks[i].h = "handleDeckTypeSelection" /\ tasks' = RemoveAt(tasks, i)
            /\ step' = step =>
          /\ deckName' = tasks[i].name
          /\ inputText' = tasks[i].content
          /\ extractedWords' = extractedWords
          /\ selectedLanguage' = selectedLanguage ]_vars

\* C25: after a failed submission the selection screen shows the working
\* copy as it was at the moment of submit: the entries selected then, as
\* edited then, are the selected entries now (edits and deselections are
\* still there when the progress screen goes away).
C25_FailedSubmitKeepsWorkingCopy ==
  [][ \A i \in 1..Len(tasks) :
        tasks[i].at = "sendRequestToApi" /\ tasks' = RemoveAt(tasks, i)
            /\ step = "selection" /\ step' = "selection" =>
          IsSelectionOf(tasks[i].words, selectedWords') ]_vars

\* C26: when the deck service answers without a transport error but the
\* body decodes as JSON with an `error` field, the call fails with that
\* message: no download is triggered, the message is shown and the workflow
\* does not advance to result.
C26_JsonErrorIsFailure ==
  [][ \A i \in 1..Len(tasks) : \A o \in DeckOutcomes :
        o.kind = "ok" /\ o.body = "jsonError" /\ DeckServiceResolves(i, o)
            /\ sendRequestToApi(tasks[i].words, tasks[i].name, o).requested =>
          /\ step' = step
          /\ download' = <<>>
          /\ alerts' = <<Alert("Error", o.msg)>> ]_vars

\* C27: whenever step is input, text, deckType, selection or result,
\* selectedLanguage is set; so it is whenever handleDeckTypeSelection runs,
\* also when a picker opened before a reset settles after it.
C27_LanguageSetPastLanguageScreen ==
  step # "language" => selectedLanguage \in Languages

\* After a reset, on the language screen of the second round, a picker that
\* was opened in the first round has just returned.
C27_Witness ==
  /\ step = "language"
  /\ selectedLanguage = Null
  /\ deckName # <<>>
  /\ HasLog(logged, "Error processing image:")

====
